---- MODULE Spec2Model ----
(***************************************************************************)
(* Payso payment API: the payment lifecycle engine (PaymentService), the   *)
(* subscription registry and the event fan-out (PaymentGateway), and the   *)
(* SDK client that calls the API (PaysoClient).                            *)
(*                                                                         *)
(* Every service method is an async function: it runs synchronously up to  *)
(* an awaited repository or quote-provider call, and other requests run    *)
(* while it is suspended.  A call is therefore a little process: one       *)
(* action per awaited repository operation, taking effect together with    *)
(* the synchronous code that follows it.                                   *)
(***************************************************************************)
EXTENDS Naturals, FiniteSets, Sequences, TLC

VARIABLES
  merchants,        \* merchant table: id -> row
  payments,         \* payment table: id -> row (only the ids that exist)
  clients,          \* PaymentGateway.clients: ids of the connected sockets
  merchantClients,  \* PaymentGateway.merchantClients: merchant id -> socket ids, as inserted
  paymentClients,   \* PaymentGateway.paymentClients: payment id -> socket ids, as inserted
  faulty,           \* the connected sockets whose emit throws
  calls,            \* the service calls in flight, one per request slot
  callsLeft,        \* number of service calls the run may still start
  lastPublish,      \* the last event handed to the gateway and the copies each socket got
  statusWrites,     \* history: the <<method, status>> pairs saved to each payment's row
  formerKeys,       \* history: the keys a socket held when it last disconnected
  sdk               \* one PaysoClient: its fields and the calls of its methods in flight

vars == <<merchants, payments, clients, merchantClients, paymentClients, faulty,
          calls, callsLeft, lastPublish, statusWrites, formerKeys, sdk>>

storeVars == <<merchants, payments, statusWrites>>
gatewayVars == <<clients, merchantClients, paymentClients, faulty, formerKeys>>

-----------------------------------------------------------------------------
(* Bounds and the small universes the inputs are drawn from.               *)

MaxCalls == 3

Callers == {"c1", "c2"}
SerialCallers == {"c1"}
\* The callers of the one PaysoClient's methods; a request the client sends
\* for caller c is served in the request slot c.
SdkCallers == Callers \cup {"c3"}
MerchantIds == {"m1"}
PaymentIds == {"p1"}
Observers == {"o1", "o2", "o3"}
BroadcastObservers == {"o1", "o2"}
MerchantKeys == {"m1", "m2"}
PaymentKeys == {"p1", "p2"}
Amounts == {1999, 819203}
\* The amounts of the runs that follow the swap route (201 is 2.01).
SwapAmounts == {201, 1999}
Signatures == {"s1", "s2"}

\* What the confirm request may carry in place of a signature: the body field
\* is read without validation, so it can be the empty text or be missing.
EmptySignature == ""
Undefined == "undefined"
ConfirmSignatures == Signatures \cup {EmptySignature, Undefined}
Reasons == {"r1"}

USDC_MINT == "USDC"
OtherMint == "SOL"
Tokens == {USDC_MINT, OtherMint}

ValidWallet == "cw1"
MalformedWallet == "bad"
CustomerWallets == {ValidWallet, MalformedWallet}
MerchantWallet == "mw1"
MerchantWallets == {MerchantWallet, "mw2"}

PENDING == "pending"
PROCESSING == "processing"
COMPLETED == "completed"
FAILED == "failed"
PaymentStatus == {PENDING, PROCESSING, COMPLETED, FAILED}

PAYMENT_CREATED == "payment_created"
PAYMENT_UPDATED == "payment_updated"
PAYMENT_COMPLETED == "payment_completed"
PAYMENT_FAILED == "payment_failed"
TRANSACTION_SUBMITTED == "transaction_submitted"

-----------------------------------------------------------------------------
(* Decimal columns and JavaScript numbers.  The columns amount and         *)
(* tokenAmount are decimal(18,6): the driver returns their text, and       *)
(* `payment.amount * 1000000` converts the text to a double and multiplies *)
(* in double arithmetic; a number written to the column is sent as its     *)
(* shortest decimal text and rounded to six places by the database.        *)
(* Amounts are counted in hundredths of the currency unit (1999 is 19.99). *)
(* Doubles need more than the 32 bits of a model integer: a natural number *)
(* of any size is the sequence of its digits in base 2^15, lowest first,   *)
(* no leading zero.                                                        *)

RECURSIVE TenTo(_, _)


Limb == 2^15

Digit(a, i) == IF i >= 1 /\ i <= Len(a) THEN a[i] ELSE 0

Top(a) ==
  IF \A i \in 1..Len(a) : a[i] = 0 THEN 0
  ELSE CHOOSE i \in 1..Len(a) : a[i] # 0 /\ \A j \in (i + 1)..Len(a) : a[j] = 0

Trim(a) == SubSeq(a, 1, Top(a))

Big(n) == Trim(<<n % Limb, (n \div Limb) % Limb, n \div (Limb * Limb)>>)

One == <<1>>

Less(a, b) ==
  IF Len(a) # Len(b) THEN Len(a) < Len(b)
  ELSE \E i \in 1..Len(a) : a[i] < b[i] /\ \A j \in (i + 1)..Len(a) : a[j] = b[j]

Longer(a, b) == IF Len(a) > Len(b) THEN Len(a) ELSE Len(b)

\* a + b: the carry into a place comes from a lower place that overflows,
\* through places that are full.
Add(a, b) ==
  LET s(i) == Digit(a, i) + Digit(b, i)
      carry(i) == IF \E j \in 1..(i - 1) :
                       s(j) >= Limb /\ \A k \in (j + 1)..(i - 1) : s(k) = Limb - 1
                    THEN 1 ELSE 0
  IN Trim([i \in 1..(Longer(a, b) + 1) |-> (s(i) + carry(i)) % Limb])

\* a - b for a >= b
Sub(a, b) ==
  LET borrow(i) == IF \E j \in 1..(i - 1) :
                        /\ Digit(a, j) < Digit(b, j)
                        /\ \A k \in (j + 1)..(i - 1) : Digit(a, k) = Digit(b, k)
                     THEN 1 ELSE 0
  IN Trim([i \in 1..Len(a) |-> (Limb + Digit(a, i) - Digit(b, i) - borrow(i)) % Limb])

Distance(a, b) == IF Less(a, b) THEN Sub(b, a) ELSE Sub(a, b)

\* a * k for k < 2^15
Scale(a, k) ==
  Add([i \in 1..Len(a) |-> (a[i] * k) % Limb],
      [i \in 1..(Len(a) + 1) |-> IF i = 1 THEN 0 ELSE (a[i - 1] * k) \div Limb])

\* a * 2^n
LimbsUp(s, limbs) ==
  Trim([i \in 1..(Len(s) + limbs) |-> IF i <= limbs THEN 0 ELSE s[i - limbs]])

ShiftLeft(a, n) == LimbsUp(Scale(a, 2^(n % 15)), n \div 15)

\* a \div 2^n
ShiftRight(a, n) ==
  Trim([i \in 1..Len(a) |->
          (Digit(a, i + (n \div 15)) \div 2^(n % 15))
            + (Digit(a, i + (n \div 15) + 1) % 2^(n % 15)) * 2^(15 - (n % 15))])

\* a % 2^n
LowBits(a, n) ==
  Trim([i \in 1..Len(a) |->
          IF i <= n \div 15 THEN a[i]
          ELSE IF i = (n \div 15) + 1 THEN a[i] % 2^(n % 15)
          ELSE 0])

BitLength(a) ==
  IF a = <<>> THEN 0
  ELSE ((Len(a) - 1) * 15) + (CHOOSE b \in 1..15 : 2^(b - 1) <= a[Len(a)] /\ a[Len(a)] < 2^b)

IsOdd(a) == a # <<>> /\ a[1] % 2 = 1

\* a * 10^f
TenTo(a, f) ==
  IF f = 0 THEN a
  ELSE IF f >= 4 THEN TenTo(Scale(a, 10000), f - 4)
  ELSE Scale(a, 10^f)

\* An IEEE-754 double below 2^53 is <<m, e>>: the value m / 2^e with m of 53
\* bits; zero is <<(<<>>), 0>>.
\* The double nearest to p / 2^e, ties to even; with sticky the value is a
\* little more than p / 2^e (less than one unit of p more).
TiesToEven(kept, rest, half, sticky) ==
  IF Less(half, rest) \/ (rest = half /\ (sticky \/ IsOdd(kept)))
    THEN Add(kept, One)
    ELSE kept

Renormalized(m, e) ==
  IF BitLength(m) = 54 THEN <<ShiftRight(m, 1), e - 1>> ELSE <<m, e>>

RoundedFrom(p, e, sticky, len) ==
  IF len <= 53 THEN <<ShiftLeft(p, 53 - len), e + (53 - len)>>
  ELSE Renormalized(TiesToEven(ShiftRight(p, len - 53), LowBits(p, len - 53),
                               ShiftLeft(One, len - 54), sticky),
                    e - (len - 53))

Rounded(p, e, sticky) ==
  IF p = <<>> THEN <<(<<>>), 0>> ELSE RoundedFrom(p, e, sticky, BitLength(p))

\* Number(text) for the text of a decimal column holding hundredths / 100: the
\* quotient to 75 binary places by long division, then rounded.
ToNumber(hundredths) ==
  LET rem(i) == ((hundredths % 100) * ((68^i) % 100)) % 100
      places == [i \in 1..5 |-> (rem(5 - i) * Limb) \div 100]
  IN Rounded(Trim(places \o Big(hundredths \div 100)), 75, rem(5) # 0)

\* x * 1000000
TimesMillion(x) == Rounded(Scale(Scale(x[1], 1000), 1000), x[2], FALSE)

\* Whether the decimal k / 10^f reads back as the double x.
WithinHalf(twice, gap, x) == Less(twice, gap) \/ (twice = gap /\ ~IsOdd(x[1]))

NearestTo(x, u, v, gap) ==
  IF Less(u, v) /\ x[1] = ShiftLeft(One, 52)
    THEN ~Less(gap, Scale(Scale(Distance(u, v), 2), 2))
    ELSE WithinHalf(Scale(Distance(u, v), 2), gap, x)

ReadsBack(x, k, f) == NearestTo(x, ShiftLeft(k, x[2]), TenTo(x[1], f), TenTo(One, f))

\* The decimal with f digits after the point that reads back as x and is
\* nearest to it, if there is one.
Closest(low, high, lowOk, highOk, below, above) ==
  IF lowOk /\ ~(highOk /\ (Less(above, below) \/ (above = below /\ IsOdd(low))))
    THEN <<low>>
  ELSE IF highOk THEN <<high>>
  ELSE <<>>

Between(x, f, v, low, high) ==
  Closest(low, high, ReadsBack(x, low, f), ReadsBack(x, high, f),
          Sub(v, ShiftLeft(low, x[2])), Sub(ShiftLeft(high, x[2]), v))

Around(x, f, v, low) == Between(x, f, v, low, Add(low, One))

DigitsOf(x, f, v) == Around(x, f, v, ShiftRight(v, x[2]))

Digits(x, f) == DigitsOf(x, f, TenTo(x[1], f))

\* Number.prototype.toString gives the shortest decimal that reads back as x:
\* the number of its digits after the point.
FractionDigits(x) ==
  CHOOSE f \in 0..24 : Digits(x, f) # <<>> /\ \A h \in 0..(f - 1) : Digits(x, h) = <<>>

\* What a numeric(18,6) column holds after it is written the number x: the
\* decimal text of x rounded to six places, half away from zero, in millionths.
HalfUp(biased, floor6, f) ==
  CHOOSE n \in {floor6, Add(floor6, One), Add(floor6, <<2>>)}
                 \cup (IF floor6 = <<>> THEN {} ELSE {Sub(floor6, One)}) :
    /\ ~Less(biased, TenTo(n, f - 6))
    /\ Less(biased, TenTo(Add(n, One), f - 6))

Numeric6Of(x, f, k) ==
  IF f <= 6 THEN TenTo(k, 6 - f)
  ELSE HalfUp(Add(k, Scale(TenTo(One, f - 7), 5)), ShiftRight(TenTo(x[1], 6), x[2]), f)

Numeric6At(x, f) == Numeric6Of(x, f, Digits(x, f)[1])

Numeric6(x) == IF x[1] = <<>> THEN <<>> ELSE Numeric6At(x, FractionDigits(x))

\* The input amounts jupiterService.getQuote may answer for a swap.
QuotedAmounts == {7}

\* parseInt(quote.inAmount) / Math.pow(10, decimals - 6), for a whole result
QuoteNumber(q) == Rounded(Big(q), 0, FALSE)

\* The doubles the model computes, each computed once.
AmountProducts == [a \in Amounts \cup SwapAmounts |-> TimesMillion(ToNumber(a))]

ColumnValues ==
  [x \in {AmountProducts[a] : a \in DOMAIN AmountProducts}
          \cup {QuoteNumber(q) : q \in QuotedAmounts}
     |-> Numeric6(x)]

\* Math.floor(x), a natural number
Floor(x) == IF x[1] = <<>> THEN <<>> ELSE ShiftRight(x[1], x[2])

\* The amount getQuote is asked for: Math.floor(payment.amount * 1000000).
QuoteRequests == [a \in DOMAIN AmountProducts |-> Floor(AmountProducts[a])]

\* A tokenAmount is a number the method computed or the text of the column.
AsNumber(x) == [mantissa |-> x[1], places |-> x[2]]

AsText(n) == [millionths |-> n]

\* payment.amount * 1000000
UsdcUnits(amount) == AsNumber(AmountProducts[amount])

\* The column after the save: a number is rounded to six places, text the
\* column gave is written back as it is.
Column(v) ==
  IF "mantissa" \in DOMAIN v THEN AsText(ColumnValues[<<v.mantissa, v.places>>]) ELSE v

\* amount * 10^6 in integers, as the text of a numeric(18,6) column.
ExactUnits(amount) == AsText(TenTo(Big(amount), 10))

-----------------------------------------------------------------------------
(* Rows, call records and events.                                          *)

BlankPayment ==
  [id |-> "", merchantId |-> "", amount |-> 0, tokenAmount |-> AsText(<<>>),
   selectedToken |-> "", destinationWallet |-> "", customerWallet |-> "",
   status |-> "none", transactionSignature |-> ""]

\* The transactionData executePayment returns.
NoQuote == [inputMint |-> "", outputMint |-> "", amount |-> <<>>, inAmount |-> 0]

NoPayload ==
  [route |-> "none", merchantAddress |-> "", destinationTokenAccount |-> "",
   amount |-> AsText(<<>>), tokenMint |-> "", quote |-> NoQuote]

IdleCall ==
  [op |-> "none", pc |-> "idle", pid |-> "", mid |-> "", amount |-> 0,
   token |-> "", wallet |-> "", sig |-> "", reason |-> "",
   local |-> BlankPayment, seen |-> BlankPayment, result |-> "none",
   thrown |-> "none", cause |-> "none", payload |-> NoPayload]

\* A call of a PaysoClient method: where it is suspended, its request, and
\* what it gave back to its caller.
IdleSdkCall ==
  [op |-> "none", pc |-> "idle", pid |-> "", token |-> "", sig |-> "",
   outcome |-> "none", waited |-> FALSE, fallback |-> FALSE,
   status |-> "none", isDirectTransfer |-> FALSE, destinationTokenAccount |-> <<>>]

\* The client after its constructor: nothing validated, no request sent.
NewClient ==
  [isValidatingApiKey |-> FALSE, apiKeyValidated |-> FALSE, merchantId |-> "",
   validateRequests |-> 0, calls |-> [u \in SdkCallers |-> IdleSdkCall]]

NoPublish ==
  [type |-> "none", paymentId |-> "", merchantId |-> "", status |-> "none",
   data |-> BlankPayment, by |-> "", copies |-> [o \in Observers |-> 0]]

\* executePayment and confirmPayment run inside a try block whose catch throws
\* a new Error with the message of whatever was thrown.
Rewraps(op) == op \in {"execute", "confirm"}

\* The class of the exception a method ends with: the NotFoundException of
\* getPaymentById / getMerchantById where no catch replaces it, Error otherwise.
Thrown(op, outcome) ==
  IF outcome = "ok" THEN "none"
  ELSE IF outcome = "NotFound" /\ ~Rewraps(op) THEN "NotFoundException"
  ELSE "Error"

\* A finished call keeps its operation, its arguments, its outcome (the cause),
\* the class of the exception thrown to its caller and the transaction data it
\* returned.
Finished(call, outcome) ==
  [call EXCEPT !.pc = "done", !.result = outcome,
               !.thrown = Thrown(call.op, outcome),
               !.local = BlankPayment, !.seen = BlankPayment]

\* Why a request to the quote provider failed: the provider answered that no
\* route exists (a 4xx answer, which axios throws), or the request did not
\* get through.
QuoteFailures == {"no-route", "network"}

\* getQuote's catch block: whatever axios threw, one Error with a fixed text.
GetQuoteError(cause) == "Failed to get quote from Jupiter API"

\* The text of the Error a method throws to its caller when getQuote failed:
\* preparePayment's catch throws a fixed text, executePayment's two catch
\* blocks each put their prefix before the text of getQuote's Error.
QuoteFailureMessage(op, cause) ==
  IF op = "prepare" THEN <<"Failed to prepare payment with selected token">>
  ELSE <<"Failed to execute payment: ", "Failed to prepare transaction: ",
         GetQuoteError(cause)>>

\* Mutant: every text is taken for an address.
IsPublicKey_NoCheck(w) == TRUE

\* new PublicKey(customerWallet) throws on a malformed address.
IsPublicKey(w) == w # MalformedWallet

-----------------------------------------------------------------------------
(* The repository (TypeORM): findOne reads a row, save writes the entity   *)
(* the caller holds over the row with its id.                              *)

Exists(pid) == pid \in DOMAIN payments

\* save skips a property of the entity that is undefined: the column keeps
\* the value the row has.
Persisted(row) ==
  [row EXCEPT !.tokenAmount = Column(@),
              !.transactionSignature =
                 IF @ = Undefined THEN payments[row.id].transactionSignature ELSE @]

\* paymentRepository.save(entity): the row becomes the caller's copy, the
\* tokenAmount as the column holds it.
Save(c, row) ==
  /\ payments' = [p \in DOMAIN payments \cup {row.id} |->
                    IF p = row.id THEN Persisted(row) ELSE payments[p]]
  /\ statusWrites' = [statusWrites EXCEPT
                        ![row.id] = @ \cup {<<calls[c].op, row.status>>}]
  /\ UNCHANGED merchants

\* The id the database generates for an inserted row.
NewId == CHOOSE p \in PaymentIds : p \notin DOMAIN payments

-----------------------------------------------------------------------------
(* PaymentGateway: fan-out.                                                *)

Range(s) == {s[i] : i \in 1..Len(s)}

\* A JavaScript Set iterates in insertion order: the set under a key is kept as
\* the sequence of its members in the order they were added.
Order(map, key) == IF key \in DOMAIN map THEN map[key] ELSE <<>>

Subs(map, key) == Range(Order(map, key))

\* The positions of a for-of loop over a set at which clientSocket.emit throws.
ThrowingAt(order) == {i \in 1..Len(order) : order[i] \in clients /\ order[i] \in faulty}

\* Mutant: the loop is left after the first member of the set.
EmittedTo_FirstOnly(order) == IF order = <<>> THEN {} ELSE {order[1]} \cap clients

\* The loop has no try/catch: the first throw ends it.  The members it emitted
\* to are the ones before that position whose socket is known.
EmittedTo(order) ==
  {order[i] : i \in {j \in 1..Len(order) :
                       /\ order[j] \in clients
                       /\ \A k \in ThrowingAt(order) : j < k}}

MerchantEmitThrows(merchantId) == ThrowingAt(Order(merchantClients, merchantId)) # {}

PaymentEmitThrows(paymentId) == ThrowingAt(Order(paymentClients, paymentId)) # {}

\* emitToMerchant: one emit per member of the merchant's set whose socket is known.
EmitToMerchant(merchantId) ==
  [o \in Observers |->
     IF o \in EmittedTo(Order(merchantClients, merchantId)) THEN 1 ELSE 0]

\* Mutant: emitToPayment reaches no one.
EmitToPayment_Silent(paymentId) == [o \in Observers |-> 0]

\* emitToPayment: one emit per member of the payment's set whose socket is known.
EmitToPayment(paymentId) ==
  [o \in Observers |->
     IF o \in EmittedTo(Order(paymentClients, paymentId)) THEN 1 ELSE 0]

\* The data field of an event: the entity the save returned, or an object that
\* holds it next to the reason or the signature the method was called with.
EventData(c, type, row) ==
  IF type = PAYMENT_FAILED THEN [payment |-> row, reason |-> calls[c].reason]
  ELSE IF type = TRANSACTION_SUBMITTED
    THEN [payment |-> row, transactionSignature |-> calls[c].sig]
  ELSE row

Event(c, type, row, copies) ==
  [type |-> type, paymentId |-> row.id, merchantId |-> row.merchantId,
   status |-> row.status, data |-> EventData(c, type, row), by |-> c,
   copies |-> copies]

\* The service methods that emit to the merchant's subscribers only.
PublishToMerchant(c, type, row) ==
  lastPublish' = Event(c, type, row, EmitToMerchant(row.merchantId))

\* The service methods that emit to the merchant's and then to the payment's
\* subscribers: a throw in emitToMerchant leaves emitToPayment uncalled.
PublishToBoth(c, type, row) ==
  lastPublish' = Event(c, type, row,
                       [o \in Observers |->
                          EmitToMerchant(row.merchantId)[o]
                            + (IF MerchantEmitThrows(row.merchantId) THEN 0
                               ELSE EmitToPayment(row.id)[o])])

BothEmitThrows(row) == MerchantEmitThrows(row.merchantId) \/ PaymentEmitThrows(row.id)

\* The outcome of a method that emits to the merchant outside any try block:
\* the error of emit leaves the method after the save.
AfterMerchantEmit(row) == IF MerchantEmitThrows(row.merchantId) THEN "EmitFailed" ELSE "ok"

-----------------------------------------------------------------------------
(* PaymentService.  CanStart: a request slot is free and the run's budget  *)
(* of calls is not used up.                                                *)

CanStart(c) == calls[c].pc \in {"idle", "done"} /\ callsLeft > 0

Begin(c, call) ==
  /\ calls' = [calls EXCEPT ![c] = call]
  /\ callsLeft' = callsLeft - 1

CreatesInFlight == {c \in Callers : calls[c].pc = "create_save"}

\* createPayment up to its insert: getMerchantById, then the new entity.
CreatePayment(c, m, amt) ==
  /\ CanStart(c)
  /\ Cardinality(DOMAIN payments) + Cardinality(CreatesInFlight) < Cardinality(PaymentIds)
  /\ LET call == [IdleCall EXCEPT !.op = "create", !.mid = m, !.amount = amt] IN
       IF m \notin DOMAIN merchants
         THEN Begin(c, Finished(call, "NotFound"))
         ELSE Begin(c, [call EXCEPT
                !.pc = "create_save",
                !.local = [BlankPayment EXCEPT
                             !.merchantId = m, !.amount = amt,
                             !.destinationWallet = merchants[m].walletAddress,
                             !.status = PENDING]])
  /\ UNCHANGED <<sdk, storeVars, gatewayVars, lastPublish>>

\* createPayment: the insert, then payment_created to the merchant's subscribers.
CreateSave(c) ==
  /\ calls[c].pc = "create_save"
  /\ LET row == [calls[c].local EXCEPT !.id = NewId] IN
       /\ Save(c, row)
       /\ PublishToMerchant(c, PAYMENT_CREATED, row)
       /\ calls' = [calls EXCEPT
                     ![c] = Finished([@ EXCEPT !.pid = row.id], AfterMerchantEmit(row))]
  /\ UNCHANGED <<sdk, gatewayVars, callsLeft>>

\* getPaymentById / findOne at the head of a method: the row as read, or NotFound.
\* The call's copy of the row is `local`; `seen` keeps what was read.
Fetch(call) == [call EXCEPT !.local = payments[call.pid], !.seen = payments[call.pid]]

\* Mutant: preparePayment takes a payment in any status.
PrepareAccepts_AnyStatus(status) == TRUE

\* preparePayment's status check: only a pending payment is prepared.
PrepareAccepts(status) == status = PENDING

\* preparePayment up to its first await after the read: the status check, then the
\* direct amount or the quote request.
PreparePayment(c, pid, token) ==
  /\ CanStart(c)
  /\ LET call == [IdleCall EXCEPT !.op = "prepare", !.pid = pid, !.token = token] IN
       IF ~Exists(pid) THEN Begin(c, Finished(call, "NotFound"))
       ELSE IF ~PrepareAccepts(payments[pid].status)
         THEN Begin(c, Finished(call, "InvalidState"))
       ELSE IF token = USDC_MINT
         THEN Begin(c, [Fetch(call) EXCEPT
                !.pc = "prepare_save",
                !.local.tokenAmount = UsdcUnits(payments[pid].amount),
                !.local.selectedToken = token])
         ELSE Begin(c, [Fetch(call) EXCEPT !.pc = "prepare_quote"])
  /\ UNCHANGED <<sdk, storeVars, gatewayVars, lastPublish>>

\* preparePayment: getQuote and getPopularTokens answer, or one of them throws.
PrepareQuote(c) ==
  /\ calls[c].pc = "prepare_quote"
  /\ \E answered \in BOOLEAN, q \in QuotedAmounts :
       calls' = [calls EXCEPT ![c] =
                   IF answered
                     THEN [@ EXCEPT !.pc = "prepare_save",
                                    !.local.tokenAmount = AsNumber(QuoteNumber(q)),
                                    !.local.selectedToken = calls[c].token]
                     ELSE Finished([@ EXCEPT !.cause = "network"], "PrepareFailed")]
  /\ UNCHANGED <<sdk, storeVars, gatewayVars, lastPublish, callsLeft>>

\* preparePayment: getQuote's request is answered with "no route".
PrepareQuoteNoRoute(c) ==
  /\ calls[c].pc = "prepare_quote"
  /\ calls' = [calls EXCEPT ![c] =
                 Finished([@ EXCEPT !.cause = "no-route"], "PrepareFailed")]
  /\ UNCHANGED <<sdk, storeVars, gatewayVars, lastPublish, callsLeft>>

\* preparePayment: the save; no event.
PrepareSave(c) ==
  /\ calls[c].pc = "prepare_save"
  /\ Save(c, calls[c].local)
  /\ calls' = [calls EXCEPT ![c] = Finished(@, "ok")]
  /\ UNCHANGED <<sdk, gatewayVars, lastPublish, callsLeft>>

\* updatePaymentStatusAfterSubmission up to its save.
RecordSubmission(c, pid, sig) ==
  /\ CanStart(c)
  /\ LET call == [IdleCall EXCEPT !.op = "submit", !.pid = pid, !.sig = sig] IN
       IF ~Exists(pid) THEN Begin(c, Finished(call, "NotFound"))
       ELSE Begin(c, [Fetch(call) EXCEPT
              !.pc = "submit_save", !.local.transactionSignature = sig])
  /\ UNCHANGED <<sdk, storeVars, gatewayVars, lastPublish>>

\* updatePaymentStatusAfterSubmission: the save, then transaction_submitted.
SubmitSave(c) ==
  /\ calls[c].pc = "submit_save"
  /\ Save(c, calls[c].local)
  /\ PublishToMerchant(c, TRANSACTION_SUBMITTED, calls[c].local)
  /\ calls' = [calls EXCEPT ![c] = Finished(@, AfterMerchantEmit(calls[c].local))]
  /\ UNCHANGED <<sdk, gatewayVars, callsLeft>>

\* executePayment's status check: only a pending payment is executed.
\* Mutant: a payment that is already processing is executed again.
ExecuteAccepts_WhileProcessing(status) == status \in {PENDING, PROCESSING}

ExecuteAccepts(status) == status = PENDING

\* executePayment up to its first save: the wallet check, the read, the status
\* check, then status and customerWallet set on the call's copy.
ExecuteArrives(c, pid, token, wallet) ==
  /\ CanStart(c)
  /\ LET call == [IdleCall EXCEPT !.op = "execute", !.pid = pid, !.token = token,
                                  !.wallet = wallet] IN
       IF ~IsPublicKey(wallet) THEN Begin(c, Finished(call, "InvalidInput"))
       ELSE IF ~Exists(pid) THEN Begin(c, Finished(call, "NotFound"))
       ELSE IF ~ExecuteAccepts(payments[pid].status)
         THEN Begin(c, Finished(call, "InvalidState"))
       ELSE Begin(c, [Fetch(call) EXCEPT
              !.pc = "execute_save",
              !.local.status = PROCESSING,
              !.local.customerWallet = wallet])
  /\ UNCHANGED <<storeVars, gatewayVars, lastPublish>>

\* An execute request sent by some other client than the PaysoClient.
ExecutePayment(c, pid, token, wallet) ==
  ExecuteArrives(c, pid, token, wallet) /\ UNCHANGED sdk

\* executePayment: the save that persists processing and the customer wallet.
ExecuteSave(c) ==
  /\ calls[c].pc = "execute_save"
  /\ Save(c, calls[c].local)
  /\ calls' = [calls EXCEPT ![c].pc = "execute_build"]
  /\ UNCHANGED <<sdk, gatewayVars, lastPublish, callsLeft>>

\* Whether building the transaction data can throw: the swap route calls the
\* quote provider twice, the direct route calls nothing that fails here.
BuildOutcomes(token) == IF token = USDC_MINT THEN {TRUE} ELSE {TRUE, FALSE}

\* getAssociatedTokenAddress(mint, owner): the address derived from the pair.
AssociatedTokenAddress(mint, owner) == <<mint, owner>>

\* Mutant: the payload is addressed to the wallet the merchant has now.
PayeeWallet_Current(row) == merchants[row.merchantId].walletAddress

\* The wallet the transaction data is built for: the payment's own column.
PayeeWallet(row) == row.destinationWallet

\* The quote executePayment gets on the swap route: the answer to its own
\* request getQuote(selectedToken, USDC_MINT, Math.floor(amount * 1000000)),
\* with the input amount q the provider names.
SwapQuote(row, token, q) ==
  [inputMint |-> token, outputMint |-> USDC_MINT,
   amount |-> QuoteRequests[row.amount], inAmount |-> q]

\* transactionData of the direct route and of the swap route.
TransactionData(row, token, q) ==
  IF token = USDC_MINT
    THEN [route |-> "direct", merchantAddress |-> PayeeWallet(row),
          destinationTokenAccount |-> AssociatedTokenAddress(USDC_MINT, PayeeWallet(row)),
          amount |-> row.tokenAmount, tokenMint |-> USDC_MINT, quote |-> NoQuote]
    ELSE [route |-> "swap", merchantAddress |-> PayeeWallet(row),
          destinationTokenAccount |-> AssociatedTokenAddress(USDC_MINT, PayeeWallet(row)),
          amount |-> AsText(<<>>), tokenMint |-> "",
          quote |-> SwapQuote(row, token, q)]

\* Mutant: the catch block forgets to reset the status.
RollbackStatus_NotReset == PROCESSING

\* The status the catch block of the transaction-data step puts on the copy.
RollbackStatus == PENDING

\* Mutant: the event carries the row as it is stored when the event is emitted.
UpdatedPayment_Reloaded(c) == payments[calls[c].pid]

\* updatedPayment, the object the first save returned: save returns the entity
\* it was given, so it is the call's own copy.
UpdatedPayment(c) == calls[c].local

\* executePayment: the transaction data is built and payment_updated goes to the
\* merchant's and the payment's subscribers (inside a try whose catch only logs),
\* or the build throws and the catch block resets the status on the call's copy
\* before its save.
ExecuteBuild(c) ==
  /\ calls[c].pc = "execute_build"
  /\ \E built \in BuildOutcomes(calls[c].token), q \in QuotedAmounts :
       IF built
         THEN /\ PublishToBoth(c, PAYMENT_UPDATED, UpdatedPayment(c))
              /\ calls' = [calls EXCEPT ![c] =
                             Finished([@ EXCEPT !.payload =
                                         TransactionData(calls[c].local, calls[c].token, q)],
                                      "ok")]
         ELSE /\ calls' = [calls EXCEPT ![c].pc = "execute_rollback",
                                        ![c].cause = "network",
                                        ![c].local.status = RollbackStatus]
              /\ UNCHANGED lastPublish
  /\ UNCHANGED <<sdk, storeVars, gatewayVars, callsLeft>>

\* executePayment, swap route: getQuote's request is answered with "no route";
\* the catch block resets the status on the call's copy before its save.
ExecuteQuoteNoRoute(c) ==
  /\ calls[c].pc = "execute_build"
  /\ calls[c].token # USDC_MINT
  /\ calls' = [calls EXCEPT ![c].pc = "execute_rollback",
                            ![c].cause = "no-route",
                            ![c].local.status = RollbackStatus]
  /\ UNCHANGED <<sdk, storeVars, gatewayVars, lastPublish, callsLeft>>

\* executePayment: the save of the catch block, then the error is rethrown.
ExecuteRollback(c) ==
  /\ calls[c].pc = "execute_rollback"
  /\ Save(c, calls[c].local)
  /\ calls' = [calls EXCEPT ![c] = Finished(@, "PrepareTxFailed")]
  /\ UNCHANGED <<sdk, gatewayVars, lastPublish, callsLeft>>

\* Mutant: the status check rejects a payment that is already completed.
ConfirmAccepts_OnceOnly(status) == status # COMPLETED

\* confirmPayment's status check: a payment not in processing is only logged.
ConfirmAccepts(status) == TRUE

\* confirmPayment up to its first save: the read, the (logging) status check,
\* the signature set on the call's copy.
ConfirmArrives(c, pid, sig) ==
  /\ CanStart(c)
  /\ LET call == [IdleCall EXCEPT !.op = "confirm", !.pid = pid, !.sig = sig] IN
       IF ~Exists(pid) THEN Begin(c, Finished(call, "NotFound"))
       ELSE IF ~ConfirmAccepts(payments[pid].status)
         THEN Begin(c, Finished(call, "InvalidState"))
       ELSE Begin(c, [Fetch(call) EXCEPT
              !.pc = "confirm_save_signature",
              !.local.transactionSignature = sig])
  /\ UNCHANGED <<storeVars, gatewayVars, lastPublish>>

\* A confirm request sent by some other client than the PaysoClient.
ConfirmPayment(c, pid, sig) ==
  ConfirmArrives(c, pid, sig) /\ UNCHANGED sdk

\* confirmPayment: the save of the signature, then completed set on the copy.
ConfirmSaveSignature(c) ==
  /\ calls[c].pc = "confirm_save_signature"
  /\ Save(c, calls[c].local)
  /\ calls' = [calls EXCEPT ![c].pc = "confirm_save_completed",
                            ![c].local.status = COMPLETED]
  /\ UNCHANGED <<sdk, gatewayVars, lastPublish, callsLeft>>

\* confirmPayment: the save of completed, then payment_completed to the
\* merchant's and the payment's subscribers.  The emits are inside the method's
\* try block: a throw is rethrown as 'Failed to confirm payment'.
ConfirmSaveCompleted(c) ==
  /\ calls[c].pc = "confirm_save_completed"
  /\ Save(c, calls[c].local)
  /\ PublishToBoth(c, PAYMENT_COMPLETED, calls[c].local)
  /\ calls' = [calls EXCEPT ![c] =
                 Finished(@, IF BothEmitThrows(calls[c].local) THEN "ConfirmFailed"
                             ELSE "ok")]
  /\ UNCHANGED <<sdk, gatewayVars, callsLeft>>

\* completePayment up to its save.
CompletePayment(c, pid) ==
  /\ CanStart(c)
  /\ LET call == [IdleCall EXCEPT !.op = "complete", !.pid = pid] IN
       IF ~Exists(pid) THEN Begin(c, Finished(call, "NotFound"))
       ELSE Begin(c, [Fetch(call) EXCEPT
              !.pc = "complete_save", !.local.status = COMPLETED])
  /\ UNCHANGED <<sdk, storeVars, gatewayVars, lastPublish>>

\* completePayment: the save, then payment_completed to the merchant's subscribers.
CompleteSave(c) ==
  /\ calls[c].pc = "complete_save"
  /\ Save(c, calls[c].local)
  /\ PublishToMerchant(c, PAYMENT_COMPLETED, calls[c].local)
  /\ calls' = [calls EXCEPT ![c] = Finished(@, AfterMerchantEmit(calls[c].local))]
  /\ UNCHANGED <<sdk, gatewayVars, callsLeft>>

\* Mutant: failPayment marks the payment with completePayment's status.
FailStatus_Completed(status) == COMPLETED

\* The status failPayment puts on the copy, whatever the status read.
FailStatus(status) == FAILED

\* failPayment up to its save.
FailPayment(c, pid, reason) ==
  /\ CanStart(c)
  /\ LET call == [IdleCall EXCEPT !.op = "fail", !.pid = pid, !.reason = reason] IN
       IF ~Exists(pid) THEN Begin(c, Finished(call, "NotFound"))
       ELSE Begin(c, [Fetch(call) EXCEPT
              !.pc = "fail_save",
              !.local.status = FailStatus(payments[pid].status)])
  /\ UNCHANGED <<sdk, storeVars, gatewayVars, lastPublish>>

\* failPayment: the save, then payment_failed to the merchant's subscribers.
FailSave(c) ==
  /\ calls[c].pc = "fail_save"
  /\ Save(c, calls[c].local)
  /\ PublishToMerchant(c, PAYMENT_FAILED, calls[c].local)
  /\ calls' = [calls EXCEPT ![c] = Finished(@, AfterMerchantEmit(calls[c].local))]
  /\ UNCHANGED <<sdk, gatewayVars, callsLeft>>

-----------------------------------------------------------------------------
(* A save that throws (the database is unreachable or rejects the write).  *)
(* Neither method catches the error of a save and repairs the row: the     *)
(* outer catch rethrows, and the store keeps what earlier saves wrote.     *)

\* executePayment: the save of processing throws, or the save of the catch
\* block that resets the status throws.
ExecuteSaveFails(c) ==
  /\ calls[c].pc \in {"execute_save", "execute_rollback"}
  /\ calls' = [calls EXCEPT ![c] = Finished(@, "PersistenceFailed")]
  /\ UNCHANGED <<sdk, storeVars, gatewayVars, lastPublish, callsLeft>>

\* confirmPayment: the save of the signature throws, or the save of completed
\* throws.
ConfirmSaveFails(c) ==
  /\ calls[c].pc \in {"confirm_save_signature", "confirm_save_completed"}
  /\ calls' = [calls EXCEPT ![c] = Finished(@, "PersistenceFailed")]
  /\ UNCHANGED <<sdk, storeVars, gatewayVars, lastPublish, callsLeft>>

-----------------------------------------------------------------------------
(* MerchantService.                                                        *)

\* updateWalletAddress: the address is validated, the merchant is read, its
\* walletAddress is set and the merchant row is saved.  No payment is touched.
UpdateWalletAddress(m, w) ==
  /\ IsPublicKey(w)
  /\ m \in DOMAIN merchants
  /\ merchants[m].walletAddress # w
  /\ merchants' = [merchants EXCEPT ![m].walletAddress = w]
  /\ UNCHANGED <<sdk, payments, statusWrites, gatewayVars, calls, callsLeft, lastPublish>>

-----------------------------------------------------------------------------
(* PaymentGateway: the subscription registry.                              *)

KeysOf(map, o) == {k \in DOMAIN map : o \in Range(map[k])}

\* Set.delete
Without(order, o) == SelectSeq(order, LAMBDA x : x # o)

\* Set.add: a member already present keeps its place.
With(order, o) == IF o \in Range(order) THEN order ELSE Append(order, o)

\* handleConnection
Connect(o) ==
  /\ o \notin clients
  /\ clients' = clients \cup {o}
  /\ formerKeys' = [formerKeys EXCEPT ![o] = {}]
  /\ UNCHANGED <<sdk, storeVars, merchantClients, paymentClients, faulty, calls, callsLeft,
                 lastPublish>>

\* The loop of handleDisconnect over one map: the socket leaves every set that
\* holds it, and a set left empty is deleted with its key.
WithoutClient(map, o) ==
  [k \in {j \in DOMAIN map : o \notin Range(map[j]) \/ Without(map[j], o) # <<>>} |->
     Without(map[k], o)]

\* handleDisconnect, the merchant map.
RemoveFromMerchantClients(o) == WithoutClient(merchantClients, o)

\* Mutant: handleDisconnect cleans the merchant map only.
RemoveFromPaymentClients_Skipped(o) == paymentClients

\* handleDisconnect, the payment map.
RemoveFromPaymentClients(o) == WithoutClient(paymentClients, o)

\* handleDisconnect
Disconnect(o) ==
  /\ o \in clients
  /\ clients' = clients \ {o}
  /\ faulty' = faulty \ {o}
  /\ merchantClients' = RemoveFromMerchantClients(o)
  /\ paymentClients' = RemoveFromPaymentClients(o)
  /\ formerKeys' = [formerKeys EXCEPT
                      ![o] = KeysOf(merchantClients, o) \cup KeysOf(paymentClients, o)]
  /\ UNCHANGED <<sdk, storeVars, calls, callsLeft, lastPublish>>

\* A connected socket goes bad: from now on its emit throws.
SocketBreaks(o) ==
  /\ o \in clients
  /\ o \notin faulty
  /\ faulty' = faulty \cup {o}
  /\ UNCHANGED <<sdk, storeVars, clients, merchantClients, paymentClients, formerKeys, calls,
                 callsLeft, lastPublish>>

\* handleSubscribeMerchant / handleSubscribePayment on one map: the key gets a
\* set if it has none, and the socket joins it.
Subscribed(map, key, o) ==
  [k \in DOMAIN map \cup {key} |-> IF k = key THEN With(Order(map, key), o) ELSE map[k]]

\* Mutant: unsubscribing never deletes the key.
Unsubscribed_KeyKept(map, key, o) ==
  IF key \notin DOMAIN map THEN map ELSE [map EXCEPT ![key] = Without(@, o)]

\* handleUnsubscribeMerchant / handleUnsubscribePayment on one map: the socket
\* leaves the key's set, and the key is deleted when the set is left empty.
Unsubscribed(map, key, o) ==
  IF key \notin DOMAIN map THEN map
  ELSE IF Without(map[key], o) = <<>> THEN [k \in DOMAIN map \ {key} |-> map[k]]
  ELSE [map EXCEPT ![key] = Without(@, o)]

\* handleSubscribeMerchant
SubscribeMerchant(o, m) ==
  /\ o \in clients
  /\ merchantClients' = Subscribed(merchantClients, m, o)
  /\ UNCHANGED <<sdk, storeVars, clients, paymentClients, faulty, formerKeys, calls, callsLeft,
                 lastPublish>>

\* handleSubscribePayment
SubscribePayment(o, p) ==
  /\ o \in clients
  /\ paymentClients' = Subscribed(paymentClients, p, o)
  /\ UNCHANGED <<sdk, storeVars, clients, merchantClients, faulty, formerKeys, calls, callsLeft,
                 lastPublish>>

\* handleUnsubscribeMerchant
UnsubscribeMerchant(o, m) ==
  /\ o \in clients
  /\ merchantClients' = Unsubscribed(merchantClients, m, o)
  /\ UNCHANGED <<sdk, storeVars, clients, paymentClients, faulty, formerKeys, calls, callsLeft,
                 lastPublish>>

\* handleUnsubscribePayment
UnsubscribePayment(o, p) ==
  /\ o \in clients
  /\ paymentClients' = Unsubscribed(paymentClients, p, o)
  /\ UNCHANGED <<sdk, storeVars, clients, merchantClients, faulty, formerKeys, calls, callsLeft,
                 lastPublish>>

-----------------------------------------------------------------------------
(* PaysoClient (the SDK).  A method of the client is an async function as  *)
(* well: one action per awaited request.  The client's requests reach the  *)
(* service through the controller, which passes arguments and results on.  *)

SdkBusy(u) == sdk.calls[u].pc \notin {"idle", "done"}

SdkEnds(call, outcome) == [call EXCEPT !.pc = "done", !.outcome = outcome]

\* Mutant: isValidatingApiKey is reset only when the validation succeeded.
ValidatingAfter_KeptOnFailure(answer) == answer # "valid"

\* validateApiKey's finally block: isValidatingApiKey = false.
ValidatingAfter(answer) == FALSE

\* validateApiKey up to its first await: a validation is running and the call
\* starts to poll; or the key is validated already; or the call sets
\* isValidatingApiKey and posts /auth/validate-key.
SdkValidateApiKey(u) ==
  /\ ~SdkBusy(u)
  /\ callsLeft > 0
  /\ callsLeft' = callsLeft - 1
  /\ LET call == [IdleSdkCall EXCEPT !.op = "validate"] IN
       IF sdk.isValidatingApiKey
         THEN sdk' = [sdk EXCEPT !.calls[u] =
                        [call EXCEPT !.pc = "validate_wait", !.waited = TRUE]]
       ELSE IF sdk.apiKeyValidated /\ sdk.merchantId # ""
         THEN sdk' = [sdk EXCEPT !.calls[u] = SdkEnds(call, "returned")]
       ELSE sdk' = [sdk EXCEPT !.isValidatingApiKey = TRUE,
                               !.validateRequests = @ + 1,
                               !.calls[u] = [call EXCEPT !.pc = "validate_post"]]
  /\ UNCHANGED <<storeVars, gatewayVars, calls, lastPublish>>

\* validateApiKey: the answer to /auth/validate-key (valid, not valid, or the
\* request fails), the catch block and the finally block.
SdkValidateAnswered(u) ==
  /\ sdk.calls[u].pc = "validate_post"
  /\ \E answer \in {"valid", "invalid", "error"} :
       sdk' = [sdk EXCEPT
                 !.merchantId = IF answer = "valid" THEN "m1" ELSE @,
                 !.apiKeyValidated = (answer = "valid"),
                 !.isValidatingApiKey = ValidatingAfter(answer),
                 !.validateRequests = @ - 1,
                 !.calls[u] = SdkEnds(@, IF answer = "valid" THEN "returned" ELSE "threw")]
  /\ UNCHANGED <<storeVars, gatewayVars, calls, callsLeft, lastPublish>>

\* validateApiKey: the 100 ms timer of a polling call fires while
\* isValidatingApiKey is false; the call returns apiKeyValidated.
SdkValidatePolls(u) ==
  /\ sdk.calls[u].pc = "validate_wait"
  /\ ~sdk.isValidatingApiKey
  /\ sdk' = [sdk EXCEPT !.calls[u] = SdkEnds(@, "returned")]
  /\ UNCHANGED <<storeVars, gatewayVars, calls, callsLeft, lastPublish>>

\* confirmPayment of a client whose key is validated: the confirm request is
\* posted with a timeout of 15 s and reaches the service.
SdkConfirmPayment(u, pid, sig) ==
  /\ ~SdkBusy(u)
  /\ sdk.apiKeyValidated
  /\ ConfirmArrives(u, pid, sig)
  /\ sdk' = [sdk EXCEPT !.calls[u] =
               [IdleSdkCall EXCEPT !.op = "confirm", !.pc = "confirm_post",
                                   !.pid = pid, !.sig = sig]]

\* confirmPayment: the response arrives in time; response.data is the payment
\* the service returned, and an error answer is thrown on.
SdkConfirmAnswered(u) ==
  /\ sdk.calls[u].pc = "confirm_post"
  /\ calls[u].pc = "done"
  /\ sdk' = [sdk EXCEPT !.calls[u] =
               IF calls[u].result = "ok"
                 THEN [SdkEnds(@, "returned") EXCEPT !.status = COMPLETED]
                 ELSE SdkEnds(@, "threw")]
  /\ UNCHANGED <<storeVars, gatewayVars, calls, callsLeft, lastPublish>>

\* confirmPayment / executePayment: the request's timeout fires first; the
\* service goes on with the request.
SdkTimesOut(u) ==
  /\ sdk.calls[u].pc \in {"confirm_post", "execute_post"}
  /\ sdk' = [sdk EXCEPT !.calls[u].pc =
               IF sdk.calls[u].pc = "confirm_post" THEN "confirm_recheck"
               ELSE "execute_recheck"]
  /\ UNCHANGED <<storeVars, gatewayVars, calls, callsLeft, lastPublish>>

\* The status of the payment confirmPayment returns after a timeout, given the
\* status getPayment read: a completed payment as it is, a processing one
\* with status completed; otherwise the method throws.
StatusAfterTimeout(stored) ==
  IF stored \in {COMPLETED, PROCESSING} THEN COMPLETED ELSE "none"

\* confirmPayment after the timeout: getPayment answers with the stored
\* payment, or fails.
SdkConfirmRechecks(u) ==
  /\ sdk.calls[u].pc = "confirm_recheck"
  /\ \E answered \in BOOLEAN :
       sdk' = [sdk EXCEPT !.calls[u] =
                 IF /\ answered
                    /\ Exists(sdk.calls[u].pid)
                    /\ StatusAfterTimeout(payments[sdk.calls[u].pid].status) # "none"
                   THEN [SdkEnds(@, "returned") EXCEPT
                           !.fallback = TRUE,
                           !.status = StatusAfterTimeout(payments[sdk.calls[u].pid].status)]
                   ELSE SdkEnds(@, "threw")]
  /\ UNCHANGED <<storeVars, gatewayVars, calls, callsLeft, lastPublish>>

\* executePayment of a client whose key is validated, up to its first await:
\* getPayment is sent.
SdkExecutePayment(u, pid, token) ==
  /\ ~SdkBusy(u)
  /\ sdk.apiKeyValidated
  /\ sdk' = [sdk EXCEPT !.calls[u] =
               [IdleSdkCall EXCEPT !.op = "execute", !.pc = "execute_check",
                                   !.pid = pid, !.token = token]]
  /\ UNCHANGED <<storeVars, gatewayVars, calls, callsLeft, lastPublish>>

\* executePayment: getPayment fails or shows a payment that is not pending,
\* and the method throws.
SdkExecuteRefused(u) ==
  /\ sdk.calls[u].pc = "execute_check"
  /\ sdk' = [sdk EXCEPT !.calls[u] = SdkEnds(@, "threw")]
  /\ UNCHANGED <<storeVars, gatewayVars, calls, callsLeft, lastPublish>>

\* executePayment: getPayment shows a pending payment; the execute request is
\* posted with a timeout of 20 s and reaches the service.
SdkExecutePosts(u, wallet) ==
  /\ sdk.calls[u].pc = "execute_check"
  /\ Exists(sdk.calls[u].pid)
  /\ payments[sdk.calls[u].pid].status = PENDING
  /\ ExecuteArrives(u, sdk.calls[u].pid, sdk.calls[u].token, wallet)
  /\ sdk' = [sdk EXCEPT !.calls[u].pc = "execute_post"]

\* executePayment: the response arrives in time; response.data holds the
\* transaction data the service built.
SdkExecuteAnswered(u) ==
  /\ sdk.calls[u].pc = "execute_post"
  /\ calls[u].pc = "done"
  /\ sdk' = [sdk EXCEPT !.calls[u] =
               IF calls[u].result = "ok"
                 THEN [SdkEnds(@, "returned") EXCEPT
                         !.status = PROCESSING,
                         !.isDirectTransfer = (calls[u].payload.route = "direct"),
                         !.destinationTokenAccount =
                            calls[u].payload.destinationTokenAccount]
                 ELSE SdkEnds(@, "threw")]
  /\ UNCHANGED <<storeVars, gatewayVars, calls, callsLeft, lastPublish>>

\* The transaction data executePayment makes up after a timeout from the
\* payment getPayment read: a direct transfer to the address in
\* destinationWallet.
FallbackIsDirectTransfer == TRUE

FallbackAccount(row) == <<row.destinationWallet>>

\* executePayment after the timeout: getPayment answers with the stored
\* payment, or fails; a processing payment is answered with made-up
\* transaction data, anything else is thrown.
SdkExecuteRechecks(u) ==
  /\ sdk.calls[u].pc = "execute_recheck"
  /\ \E answered \in BOOLEAN :
       sdk' = [sdk EXCEPT !.calls[u] =
                 IF /\ answered
                    /\ Exists(sdk.calls[u].pid)
                    /\ payments[sdk.calls[u].pid].status = PROCESSING
                   THEN [SdkEnds(@, "returned") EXCEPT
                           !.fallback = TRUE,
                           !.status = PROCESSING,
                           !.isDirectTransfer = FallbackIsDirectTransfer,
                           !.destinationTokenAccount =
                              FallbackAccount(payments[sdk.calls[u].pid])]
                   ELSE SdkEnds(@, "threw")]
  /\ UNCHANGED <<storeVars, gatewayVars, calls, callsLeft, lastPublish>>

\* A socket sends a subscription message and disconnects at once, and the
\* handler's body runs after handleDisconnect: the handler does not look at
\* the clients map.
SubscribeMerchantAfterDisconnect(o, m) ==
  /\ o \in clients
  /\ clients' = clients \ {o}
  /\ faulty' = faulty \ {o}
  /\ merchantClients' = Subscribed(RemoveFromMerchantClients(o), m, o)
  /\ paymentClients' = RemoveFromPaymentClients(o)
  /\ formerKeys' = [formerKeys EXCEPT
                      ![o] = KeysOf(merchantClients, o) \cup KeysOf(paymentClients, o)]
  /\ UNCHANGED <<sdk, storeVars, calls, callsLeft, lastPublish>>

SubscribePaymentAfterDisconnect(o, p) ==
  /\ o \in clients
  /\ clients' = clients \ {o}
  /\ faulty' = faulty \ {o}
  /\ merchantClients' = RemoveFromMerchantClients(o)
  /\ paymentClients' = Subscribed(RemoveFromPaymentClients(o), p, o)
  /\ formerKeys' = [formerKeys EXCEPT
                      ![o] = KeysOf(merchantClients, o) \cup KeysOf(paymentClients, o)]
  /\ UNCHANGED <<sdk, storeVars, calls, callsLeft, lastPublish>>

-----------------------------------------------------------------------------
(* Specifications.                                                         *)

UnknownMerchant == "m0"

Init ==
  /\ merchants = [m \in MerchantIds |-> [walletAddress |-> MerchantWallet]]
  /\ payments = [p \in {} |-> BlankPayment]
  /\ clients = {}
  /\ merchantClients = [k \in {} |-> <<>>]
  /\ paymentClients = [k \in {} |-> <<>>]
  /\ faulty = {}
  /\ calls = [c \in Callers |-> IdleCall]
  /\ callsLeft = MaxCalls
  /\ lastPublish = NoPublish
  /\ statusWrites = [p \in PaymentIds |-> {}]
  /\ formerKeys = [o \in Observers |-> {}]
  /\ sdk = NewClient

\* A request arrives and its method runs to its first suspension.
Request(c) ==
  \/ \E m \in MerchantIds \cup {UnknownMerchant}, a \in Amounts : CreatePayment(c, m, a)
  \/ \E p \in PaymentIds, t \in Tokens : PreparePayment(c, p, t)
  \/ \E p \in PaymentIds, g \in Signatures : RecordSubmission(c, p, g)
  \/ \E p \in PaymentIds, t \in Tokens, w \in CustomerWallets : ExecutePayment(c, p, t, w)
  \/ \E p \in PaymentIds, g \in ConfirmSignatures : ConfirmPayment(c, p, g)
  \/ \E p \in PaymentIds : CompletePayment(c, p)
  \/ \E p \in PaymentIds, r \in Reasons : FailPayment(c, p, r)

\* A suspended method resumes.
Resume(c) ==
  \/ CreateSave(c)
  \/ PrepareQuote(c)
  \/ PrepareSave(c)
  \/ SubmitSave(c)
  \/ ExecuteSave(c)
  \/ ExecuteBuild(c)
  \/ ExecuteRollback(c)
  \/ ConfirmSaveSignature(c)
  \/ ConfirmSaveCompleted(c)
  \/ CompleteSave(c)
  \/ FailSave(c)

\* A socket connects, disconnects or sends a subscription message for one of
\* the merchant keys ms and payment keys ps.
Socket(o, ms, ps) ==
  \/ Connect(o)
  \/ Disconnect(o)
  \/ \E m \in ms : SubscribeMerchant(o, m)
  \/ \E p \in ps : SubscribePayment(o, p)
  \/ \E m \in ms : UnsubscribeMerchant(o, m)
  \/ \E p \in ps : UnsubscribePayment(o, p)

\* The lifecycle engine under concurrent requests, while merchants change their
\* wallet; no socket is connected.
Next ==
  \/ \E c \in Callers : Request(c) \/ Resume(c)
  \/ \E m \in MerchantIds, w \in MerchantWallets : UpdateWalletAddress(m, w)

Spec == Init /\ [][Next]_vars

\* The engine serving one request at a time while sockets come and go.
NextBroadcast ==
  \/ \E c \in SerialCallers : Request(c) \/ Resume(c)
  \/ \E o \in BroadcastObservers : Socket(o, MerchantIds, PaymentIds)

SpecBroadcast == Init /\ [][NextBroadcast]_vars

\* One client at a time, one call more than in the other specifications: the
\* whole flow create, prepare, execute, confirm fits in a run.
InitScenario ==
  /\ merchants = [m \in MerchantIds |-> [walletAddress |-> MerchantWallet]]
  /\ payments = [p \in {} |-> BlankPayment]
  /\ clients = {}
  /\ merchantClients = [k \in {} |-> <<>>]
  /\ paymentClients = [k \in {} |-> <<>>]
  /\ faulty = {}
  /\ calls = [c \in Callers |-> IdleCall]
  /\ callsLeft = MaxCalls + 1
  /\ lastPublish = NoPublish
  /\ statusWrites = [p \in PaymentIds |-> {}]
  /\ formerKeys = [o \in Observers |-> {}]
  /\ sdk = NewClient

NextScenario == \E c \in SerialCallers : Request(c) \/ Resume(c)

SpecScenario == InitScenario /\ [][NextScenario]_vars

\* Concurrent requests while one client connects and subscribes.
OrderObservers == {"o1"}

NextOrder ==
  \/ \E c \in Callers : Request(c) \/ Resume(c)
  \/ \E o \in OrderObservers : Socket(o, MerchantIds, PaymentIds)

SpecOrder == Init /\ [][NextOrder]_vars

\* The call waits for an answer of the quote provider (axios.get / axios.post,
\* sent without a timeout).
AwaitsProvider(c) ==
  /\ calls[c].pc \in {"prepare_quote", "execute_build"}
  /\ calls[c].token # USDC_MINT

\* Every step of a request that depends only on the process and its database
\* is eventually taken; an answer of the quote provider may never come.
NextLive == \E c \in SerialCallers : Request(c) \/ Resume(c)

SpecLive ==
  Init /\ [][NextLive]_vars
       /\ \A c \in SerialCallers : WF_vars(Resume(c) /\ ~AwaitsProvider(c))

\* One client at a time against a database whose writes may fail.
NextStore ==
  \/ \E c \in SerialCallers : Request(c) \/ Resume(c)
  \/ \E c \in SerialCallers : ExecuteSaveFails(c)
  \/ \E c \in SerialCallers : ConfirmSaveFails(c)

SpecStore == Init /\ [][NextStore]_vars

\* Concurrent requests against a quote provider that may also answer that no
\* route exists.
NextQuote ==
  \/ \E c \in Callers : Request(c) \/ Resume(c)
  \/ \E c \in Callers : PrepareQuoteNoRoute(c)
  \/ \E c \in Callers : ExecuteQuoteNoRoute(c)

SpecQuote == Init /\ [][NextQuote]_vars

\* Concurrent requests that create, prepare and execute payments of the
\* amounts SwapAmounts.
RequestSwap(c) ==
  \/ \E m \in MerchantIds, a \in SwapAmounts : CreatePayment(c, m, a)
  \/ \E p \in PaymentIds, t \in Tokens : PreparePayment(c, p, t)
  \/ \E p \in PaymentIds, t \in Tokens, w \in CustomerWallets : ExecutePayment(c, p, t, w)

ResumeSwap(c) ==
  \/ CreateSave(c)
  \/ PrepareQuote(c)
  \/ PrepareSave(c)
  \/ ExecuteSave(c)
  \/ ExecuteBuild(c)
  \/ ExecuteRollback(c)

NextSwap == \E c \in Callers : RequestSwap(c) \/ ResumeSwap(c)

SpecSwap == Init /\ [][NextSwap]_vars

\* The PaysoClient with a validated key, used by one caller at a time, next to
\* requests of the same caller sent without it.
ValidatedClient == [NewClient EXCEPT !.apiKeyValidated = TRUE, !.merchantId = "m1"]

InitClient ==
  /\ merchants = [m \in MerchantIds |-> [walletAddress |-> MerchantWallet]]
  /\ payments = [p \in {} |-> BlankPayment]
  /\ clients = {}
  /\ merchantClients = [k \in {} |-> <<>>]
  /\ paymentClients = [k \in {} |-> <<>>]
  /\ faulty = {}
  /\ calls = [c \in Callers |-> IdleCall]
  /\ callsLeft = MaxCalls
  /\ lastPublish = NoPublish
  /\ statusWrites = [p \in PaymentIds |-> {}]
  /\ formerKeys = [o \in Observers |-> {}]
  /\ sdk = ValidatedClient

SdkRequest(u) ==
  \/ \E p \in PaymentIds, g \in Signatures : SdkConfirmPayment(u, p, g)
  \/ \E p \in PaymentIds, t \in Tokens : SdkExecutePayment(u, p, t)

SdkResume(u) ==
  \/ SdkConfirmAnswered(u)
  \/ SdkTimesOut(u)
  \/ SdkConfirmRechecks(u)
  \/ SdkExecuteRefused(u)
  \/ \E w \in CustomerWallets : SdkExecutePosts(u, w)
  \/ SdkExecuteAnswered(u)
  \/ SdkExecuteRechecks(u)

\* A request sent without the client, while no method of the client runs.
PlainRequest(c) == ~SdkBusy(c) /\ Request(c)

NextClient ==
  \E c \in SerialCallers :
    \/ PlainRequest(c)
    \/ Resume(c)
    \/ SdkRequest(c)
    \/ SdkResume(c)

SpecClient == InitClient /\ [][NextClient]_vars

\* The PaysoClient alone: concurrent calls of validateApiKey.  A request to
\* /auth/validate-key is answered or fails in the end, and a timer that is
\* due fires.
NextValidate ==
  \E u \in SdkCallers :
    \/ SdkValidateApiKey(u)
    \/ SdkValidateAnswered(u)
    \/ SdkValidatePolls(u)

SpecValidate ==
  Init /\ [][NextValidate]_vars
       /\ \A u \in SdkCallers :
            WF_vars(SdkValidateAnswered(u)) /\ WF_vars(SdkValidatePolls(u))

\* The sockets whose emit may start to throw.
BreakableObservers == {"o1"}

\* The engine serving one request at a time while sockets come and go and the
\* emit of a connected socket may start to throw.
NextFaulty ==
  \/ NextBroadcast
  \/ \E o \in BreakableObservers : SocketBreaks(o)

SpecFaulty == Init /\ [][NextFaulty]_vars

\* The registry with sockets whose last subscription message is handled after
\* their disconnect.
NextLate ==
  \/ \E o \in BroadcastObservers : Socket(o, MerchantKeys, PaymentKeys)
  \/ \E o \in BroadcastObservers, m \in MerchantKeys : SubscribeMerchantAfterDisconnect(o, m)
  \/ \E o \in BroadcastObservers, p \in PaymentKeys : SubscribePaymentAfterDisconnect(o, p)

SpecLate == Init /\ [][NextLate]_vars

\* The registry alone: sockets and subscription messages over several keys.
NextRegistry == \E o \in Observers : Socket(o, MerchantKeys, PaymentKeys)

SpecRegistry == Init /\ [][NextRegistry]_vars

-----------------------------------------------------------------------------
(* Payment lifecycle properties (Spec: concurrent requests).               *)

\* C1: once a payment's persisted status is completed it never later becomes
\* pending, processing or failed.
C1_CompletedNeverRegresses ==
  [][\A p \in DOMAIN payments :
       payments[p].status = COMPLETED => payments'[p].status = COMPLETED]_vars

ExecuteProceeding(c) ==
  /\ calls[c].op = "execute"
  /\ calls[c].pc \in {"execute_save", "execute_build", "execute_rollback"}

\* C2: two Execute calls on the same payment never both observe pending and
\* both proceed past the status check.
C2_OneExecuteProceeds ==
  \A c1, c2 \in Callers :
    (c1 # c2 /\ ExecuteProceeding(c1) /\ ExecuteProceeding(c2))
      => calls[c1].pid # calls[c2].pid

StatusesSaved(p) == {w[2] : w \in statusWrites[p]}

\* C3 as stated: a payment whose status is completed was in processing at some
\* earlier point.
C3_CompletedWasProcessing ==
  \A p \in DOMAIN payments :
    payments[p].status = COMPLETED => PROCESSING \in StatusesSaved(p)

\* C3 as amended: a payment whose status is completed was saved as completed by
\* confirmPayment or completePayment at some earlier point (these accept a
\* payment in any status, so processing need not come first).
C3_CompletedByConfirmOrComplete ==
  \A p \in DOMAIN payments :
    payments[p].status = COMPLETED =>
      \E w \in statusWrites[p] : w[1] \in {"confirm", "complete"} /\ w[2] = COMPLETED

\* C3 witness: a completed payment that never was in processing.
C3_Witness ==
  \E p \in DOMAIN payments :
    /\ payments[p].status = COMPLETED
    /\ PROCESSING \notin StatusesSaved(p)
    /\ <<"confirm", COMPLETED>> \in statusWrites[p]

\* C4: when Execute returns after the quote or the payload construction failed,
\* the persisted status is pending, the failure is the call's outcome, and the
\* status check of Execute accepts the payment again.
C4_BuildFailureRollsBack ==
  [][\A c \in Callers :
       (calls[c].pc \in {"execute_build", "execute_rollback"} /\ calls'[c].pc = "done"
          /\ calls'[c].result # "ok")
         => /\ calls[c].pc = "execute_rollback"
            /\ calls'[c].result = "PrepareTxFailed"
            /\ payments'[calls[c].pid].status = PENDING
            /\ ExecuteAccepts(payments'[calls[c].pid].status)]_vars

\* C4 witness: an Execute ended in the build failure, the payment is pending and
\* a later Execute on it has passed the status check.
C4_Witness ==
  \E c1, c2 \in Callers :
    /\ calls[c1].op = "execute" /\ calls[c1].result = "PrepareTxFailed"
    /\ calls[c2].op = "execute" /\ calls[c2].pc = "execute_save"
    /\ calls[c2].pid = calls[c1].pid
    /\ payments[calls[c1].pid].status = PENDING

\* A Confirm in flight that read the payment completed with the signature it carries.
RepeatedConfirm(c) ==
  /\ calls[c].op = "confirm"
  /\ calls[c].pc \in {"confirm_save_signature", "confirm_save_completed"}
  /\ calls[c].seen.status = COMPLETED
  /\ calls[c].seen.transactionSignature = calls[c].sig

\* A Confirm arrives for a completed payment with the signature the row holds.
RepeatedConfirmArrives(c) ==
  /\ calls[c].pc \in {"idle", "done"}
  /\ calls'[c] # calls[c]
  /\ calls'[c].op = "confirm"
  /\ Exists(calls'[c].pid)
  /\ payments[calls'[c].pid].status = COMPLETED
  /\ payments[calls'[c].pid].transactionSignature = calls'[c].sig

\* C5: a Confirm with the same signature on an already completed payment is
\* accepted, ends without error, and every save it makes leaves the status
\* completed and the signature as it was.
C5_RepeatedConfirmIdempotent ==
  [][\A c \in Callers :
       /\ RepeatedConfirmArrives(c) => calls'[c].pc = "confirm_save_signature"
       /\ (RepeatedConfirm(c) /\ calls'[c] # calls[c])
            => /\ payments'[calls[c].pid].status = COMPLETED
               /\ payments'[calls[c].pid].transactionSignature = calls[c].sig
               /\ calls'[c].result \in {"none", "ok"}]_vars

\* C5 witness: a repeated Confirm has saved the signature again and the row is
\* still completed with that signature.
C5_Witness ==
  \E c \in Callers :
    /\ RepeatedConfirm(c)
    /\ calls[c].pc = "confirm_save_completed"
    /\ payments[calls[c].pid].status = COMPLETED
    /\ payments[calls[c].pid].transactionSignature = calls[c].sig

\* C13: a payment's selectedToken is non-empty exactly when its status is
\* processing, completed or failed.
C13_SelectedTokenIffPastPending ==
  \A p \in DOMAIN payments :
    (payments[p].selectedToken # "") <=> (payments[p].status # PENDING)

\* C14: a payment is created with the wallet address createPayment read from
\* the merchant; no later step changes a payment's destinationWallet, and an
\* updateWalletAddress changes no payment at all; the transaction data of an
\* Execute names the payment's destinationWallet and the token account derived
\* from it, whatever wallet the merchant has by then.
C14_WalletSnapshot ==
  [][/\ merchants' # merchants => payments' = payments
     /\ \A p \in DOMAIN payments :
          payments'[p].destinationWallet = payments[p].destinationWallet
     /\ \A c \in Callers :
          /\ (calls[c].pc \in {"idle", "done"} /\ calls'[c].pc = "create_save")
               => calls'[c].local.destinationWallet
                    = merchants[calls'[c].mid].walletAddress
          /\ (calls[c].pc = "create_save" /\ calls'[c].pc = "done")
               => payments'[calls'[c].pid].destinationWallet
                    = calls[c].local.destinationWallet
          /\ (calls[c].pc = "execute_build" /\ calls'[c].pc = "done")
               => /\ calls'[c].payload.merchantAddress
                       = payments[calls[c].pid].destinationWallet
                  /\ calls'[c].payload.destinationTokenAccount
                       = AssociatedTokenAddress(USDC_MINT,
                                                payments[calls[c].pid].destinationWallet)]_vars

\* C14 witness: the merchant changed its wallet after the payment was created,
\* and an Execute then returned transaction data for the payment's own wallet.
C14_Witness ==
  \E c \in Callers, p \in DOMAIN payments :
    /\ calls[c].op = "execute" /\ calls[c].pid = p /\ calls[c].result = "ok"
    /\ payments[p].destinationWallet = MerchantWallet
    /\ merchants[payments[p].merchantId].walletAddress # MerchantWallet
    /\ calls[c].payload.merchantAddress = MerchantWallet

\* C15: the tokenAmount a direct-route preparePayment persists is the
\* payment's amount times 10^6 exactly, and a repeated direct-route prepare
\* persists the value the row already had.
C15_DirectAmountExact ==
  [][\A c \in Callers :
       (calls[c].pc = "prepare_save" /\ calls'[c].pc = "done"
          /\ calls[c].token = USDC_MINT)
         => /\ payments'[calls[c].pid].tokenAmount
                 = ExactUnits(payments'[calls[c].pid].amount)
            /\ calls[c].seen.selectedToken = USDC_MINT
                 => payments'[calls[c].pid].tokenAmount = calls[c].seen.tokenAmount]_vars

\* A request of caller c starts with this step.
Starts(c) == CanStart(c) /\ calls'[c] # calls[c]

\* C17: an Execute for a payment whose status is no longer pending ends at once
\* with an error, InvalidState when the wallet is well-formed; the stored
\* payments are as before, no transaction data is returned and nothing is
\* published.
C17_ExecuteRejected ==
  [][\A c \in Callers :
       (Starts(c) /\ calls'[c].op = "execute" /\ Exists(calls'[c].pid)
          /\ payments[calls'[c].pid].status \in {PROCESSING, COMPLETED, FAILED})
         => /\ calls'[c].pc = "done"
            /\ calls'[c].result \notin {"ok", "none"}
            /\ IsPublicKey(calls'[c].wallet) => calls'[c].result = "InvalidState"
            /\ calls'[c].payload = NoPayload
            /\ payments' = payments
            /\ lastPublish' = lastPublish]_vars

C17_Witness ==
  \E c \in Callers :
    /\ calls[c].op = "execute" /\ calls[c].pc = "done"
    /\ calls[c].result = "InvalidState"
    /\ payments[calls[c].pid].status = COMPLETED

\* C21: a payment whose stored status is failed keeps that status whatever
\* method writes the row next.
C21_FailedIsTerminal ==
  [][\A p \in DOMAIN payments :
       payments[p].status = FAILED => payments'[p].status = FAILED]_vars

\* C22: the save of a preparePayment that finds the payment stored as
\* processing leaves the stored status and customerWallet as they are.
C22_PrepareKeepsExecution ==
  [][\A c \in Callers :
       (calls[c].pc = "prepare_save" /\ calls'[c].pc = "done"
          /\ payments[calls[c].pid].status = PROCESSING)
         => /\ payments'[calls[c].pid].status = PROCESSING
            /\ payments'[calls[c].pid].customerWallet
                 = payments[calls[c].pid].customerWallet]_vars

\* C28: a method called with the id of a payment that does not exist, and
\* createPayment called with the id of a merchant that does not exist, ends at
\* once with a NotFoundException, the stored payments as before and nothing
\* published.
C28_NotFoundSurfaced ==
  [][\A c \in Callers :
       (Starts(c)
          /\ \/ /\ calls'[c].op \in {"prepare", "submit", "confirm", "fail"}
                /\ ~Exists(calls'[c].pid)
             \/ /\ calls'[c].op = "execute"
                /\ ~Exists(calls'[c].pid)
                /\ IsPublicKey(calls'[c].wallet)
             \/ /\ calls'[c].op = "create"
                /\ calls'[c].mid \notin DOMAIN merchants)
         => /\ calls'[c].pc = "done"
            /\ calls'[c].thrown = "NotFoundException"
            /\ payments' = payments
            /\ lastPublish' = lastPublish]_vars

\* C29: an executePayment whose customerWallet is not a well-formed address
\* ends at once, rejected for that reason, whatever the payment id: the stored
\* payments are as before, the call never reaches the quote provider, returns
\* no transaction data and publishes nothing.
C29_MalformedWalletRejected ==
  [][\A c \in Callers :
       (Starts(c) /\ calls'[c].op = "execute" /\ calls'[c].wallet = MalformedWallet)
         => /\ calls'[c].pc = "done"
            /\ calls'[c].result = "InvalidInput"
            /\ calls'[c].payload = NoPayload
            /\ payments' = payments
            /\ lastPublish' = lastPublish]_vars

\* C29 witness: an executePayment with a malformed wallet was rejected for a
\* pending payment, whose customerWallet is still empty.
C29_Witness ==
  \E c \in Callers :
    /\ calls[c].op = "execute" /\ calls[c].wallet = MalformedWallet
    /\ calls[c].pc = "done" /\ calls[c].result = "InvalidInput"
    /\ Exists(calls[c].pid)
    /\ payments[calls[c].pid].status = PENDING
    /\ payments[calls[c].pid].customerWallet = ""

-----------------------------------------------------------------------------
(* The reference flow (SpecScenario: one request at a time).               *)

\* The saves of create, direct prepare and execute, and nothing else.
PreparedAndExecuted(p) ==
  /\ statusWrites[p] = {<<"create", PENDING>>, <<"prepare", PENDING>>,
                        <<"execute", PROCESSING>>}
  /\ payments[p].selectedToken = USDC_MINT

\* C16: after create and a prepare with USDC, an Execute with USDC and a valid
\* wallet returns the direct-route transaction data: the merchant's wallet, the
\* USDC account derived from it and amount times 10^6; the Confirm that follows
\* ends without error and leaves the payment completed with its signature.
C16_DirectFlow ==
  [][\A c \in Callers :
       /\ (calls[c].pc = "execute_build" /\ calls'[c].pc = "done"
             /\ calls[c].token = USDC_MINT /\ PreparedAndExecuted(calls[c].pid))
            => calls'[c].payload =
                 [route |-> "direct",
                  merchantAddress |-> merchants[payments[calls[c].pid].merchantId].walletAddress,
                  destinationTokenAccount |->
                    AssociatedTokenAddress(
                      USDC_MINT, merchants[payments[calls[c].pid].merchantId].walletAddress),
                  amount |-> ExactUnits(payments[calls[c].pid].amount),
                  tokenMint |-> USDC_MINT, quote |-> NoQuote]
       /\ (calls[c].pc = "confirm_save_completed" /\ calls'[c].pc = "done"
             /\ statusWrites[calls[c].pid]
                  = {<<"create", PENDING>>, <<"prepare", PENDING>>,
                     <<"execute", PROCESSING>>, <<"confirm", PROCESSING>>}
             /\ payments[calls[c].pid].selectedToken = USDC_MINT
             /\ calls[c].sig \in Signatures)
            => /\ calls'[c].result = "ok"
               /\ payments'[calls[c].pid].status = COMPLETED
               /\ payments'[calls[c].pid].transactionSignature = calls[c].sig]_vars

\* C23: an executePayment that fails while building the transaction data
\* leaves the stored customerWallet as the call found it (empty when no
\* execution succeeded before), and a stored customerWallet is never replaced.
C23_CustomerWalletSetOnce ==
  [][/\ \A c \in Callers :
          (calls[c].pc = "execute_rollback" /\ calls'[c].pc = "done")
            => payments'[calls[c].pid].customerWallet = calls[c].seen.customerWallet
     /\ \A p \in DOMAIN payments :
          payments[p].customerWallet # ""
            => payments'[p].customerWallet = payments[p].customerWallet]_vars

\* C24: a confirmPayment whose request carries no signature (empty text or no
\* field) leaves the stored transactionSignature as it is at both of its saves
\* and ends with the payment completed.
C24_NoSignatureKeepsStored ==
  [][\A c \in Callers :
       (calls[c].op = "confirm" /\ calls[c].sig \in {EmptySignature, Undefined}
          /\ calls[c].pc \in {"confirm_save_signature", "confirm_save_completed"}
          /\ calls'[c] # calls[c])
         => /\ payments'[calls[c].pid].transactionSignature
                 = payments[calls[c].pid].transactionSignature
            /\ calls'[c].pc = "done" => payments'[calls[c].pid].status = COMPLETED]_vars

\* C25: the stored tokenAmount is 0 while no token is selected, and once a
\* token is selected no step changes it.
C25_TokenAmountFixed ==
  [][\A p \in DOMAIN payments :
       /\ payments[p].selectedToken = "" => payments[p].tokenAmount = AsText(<<>>)
       /\ payments[p].selectedToken # ""
            => payments'[p].tokenAmount = payments[p].tokenAmount]_vars

\* C26: whatever was done to the pending payment before, the direct-route
\* transaction data executePayment returns carries amount times 10^6.
C26_DirectPayloadAmount ==
  [][\A c \in Callers :
       (calls[c].pc = "execute_build" /\ calls'[c].pc = "done"
          /\ calls'[c].payload.route = "direct")
         => calls'[c].payload.amount = ExactUnits(payments[calls[c].pid].amount)]_vars

-----------------------------------------------------------------------------
(* Event distribution properties (SpecBroadcast) and registry properties   *)
(* (SpecRegistry).                                                         *)

\* The step in which call c hands its event to the gateway.
Publishes(c) ==
  /\ calls[c].pc \in {"create_save", "submit_save", "execute_build",
                      "confirm_save_completed", "complete_save", "fail_save"}
  /\ calls'[c].pc = "done"
  /\ calls'[c].result = "ok"

OnlyMerchantSubscriber(o, m, p) ==
  o \in clients /\ o \in Subs(merchantClients, m) /\ o \notin Subs(paymentClients, p)

OnlyPaymentSubscriber(o, m, p) ==
  o \in clients /\ o \notin Subs(merchantClients, m) /\ o \in Subs(paymentClients, p)

\* C6: no published event reaches an observer in more than one copy, also when
\* the observer is subscribed to the merchant key and to the payment key.
C6_AtMostOneCopy == \A o \in Observers : lastPublish.copies[o] <= 1

\* C7: a successful Execute (payment_updated) or Confirm (payment_completed)
\* delivers exactly one event to an observer subscribed only to the merchant
\* and exactly one to an observer subscribed only to the payment.
C7_OneEventEach ==
  [][\A c \in Callers :
       (Publishes(c) /\ calls[c].op \in {"execute", "confirm"})
         => /\ lastPublish'.type =
                 (IF calls[c].op = "execute" THEN PAYMENT_UPDATED ELSE PAYMENT_COMPLETED)
            /\ lastPublish'.paymentId = calls[c].pid
            /\ \A o \in Observers :
                 (\/ OnlyMerchantSubscriber(o, payments[calls[c].pid].merchantId, calls[c].pid)
                  \/ OnlyPaymentSubscriber(o, payments[calls[c].pid].merchantId, calls[c].pid))
                   => lastPublish'.copies[o] = 1]_vars

\* C7 witness: o1 holds only the merchant key, o2 only the payment key, and the
\* last payment_updated reached each of them once.
C7_Witness ==
  /\ lastPublish.type = PAYMENT_UPDATED
  /\ OnlyMerchantSubscriber("o1", lastPublish.merchantId, lastPublish.paymentId)
  /\ OnlyPaymentSubscriber("o2", lastPublish.merchantId, lastPublish.paymentId)
  /\ lastPublish.copies["o1"] = 1
  /\ lastPublish.copies["o2"] = 1

\* C8: every event published for an existing payment (payment_failed and
\* transaction_submitted included) reaches every connected observer subscribed
\* to the event's payment key and every one subscribed to its merchant key.
C8_ReachesBothKeySpaces ==
  [][\A c \in Callers :
       (Publishes(c) /\ calls[c].op # "create")
         => \A o \in clients :
              (\/ o \in Subs(merchantClients, lastPublish'.merchantId)
               \/ o \in Subs(paymentClients, lastPublish'.paymentId))
                => lastPublish'.copies[o] >= 1]_vars

NoMembership(o) ==
  /\ \A k \in DOMAIN merchantClients : o \notin Range(merchantClients[k])
  /\ \A k \in DOMAIN paymentClients : o \notin Range(paymentClients[k])

\* C9: a disconnect leaves the observer in no merchant-key set and no
\* payment-key set, and an event published while it is disconnected delivers
\* nothing to it.
C9_DisconnectRemovesEverywhere ==
  [][/\ \A o \in Observers :
          (o \in clients /\ o \notin clients') => NoMembership(o)'
     /\ \A c \in Callers, o \in Observers :
          (Publishes(c) /\ o \notin clients) => lastPublish'.copies[o] = 0]_vars

\* C9 witness: o1 disconnected while holding the merchant key and the payment
\* key of the last event, which reached o2 and not o1.
C9_Witness ==
  /\ "o1" \notin clients
  /\ {lastPublish.merchantId, lastPublish.paymentId} \subseteq formerKeys["o1"]
  /\ lastPublish.type = PAYMENT_COMPLETED
  /\ lastPublish.copies["o1"] = 0
  /\ lastPublish.copies["o2"] >= 1
  /\ NoMembership("o1")

\* C10: no key of the merchant map or of the payment map has an empty set.
C10_NoEmptySets ==
  /\ \A k \in DOMAIN merchantClients : merchantClients[k] # <<>>
  /\ \A k \in DOMAIN paymentClients : paymentClients[k] # <<>>

\* C10 witness: the keys o1 held alone when it disconnected are gone, one that
\* another observer unsubscribed from is gone, and one still has a member.
C10_Witness ==
  /\ "o1" \notin clients
  /\ formerKeys["o1"] = {"m1", "p1"}
  /\ "m1" \notin DOMAIN merchantClients
  /\ "p1" \notin DOMAIN paymentClients
  /\ "o2" \in clients
  /\ "m2" \in DOMAIN merchantClients /\ merchantClients["m2"] = <<"o2">>
  /\ "p2" \notin DOMAIN paymentClients

\* C27: a preparePayment for a payment that is not pending ends at once with
\* InvalidState and the stored payments as before; one that succeeds leaves
\* the stored status pending; no step of preparePayment publishes an event.
C27_PrepareOnlyWhenPending ==
  [][\A c \in Callers :
       /\ (Starts(c) /\ calls'[c].op = "prepare" /\ Exists(calls'[c].pid)
             /\ payments[calls'[c].pid].status # PENDING)
            => /\ calls'[c].pc = "done"
               /\ calls'[c].result = "InvalidState"
               /\ payments' = payments
       /\ (calls[c].op = "prepare" /\ calls[c].pc # "done" /\ calls'[c].pc = "done"
             /\ calls'[c].result = "ok")
            => payments'[calls[c].pid].status = PENDING
       /\ (calls'[c].op = "prepare" /\ calls'[c] # calls[c])
            => lastPublish' = lastPublish]_vars

\* C27 witness: a preparePayment has succeeded while a connected client is
\* subscribed to the payment's merchant and to the payment.
C27_Witness ==
  \E c \in Callers, o \in clients :
    /\ calls[c].op = "prepare" /\ calls[c].pc = "done" /\ calls[c].result = "ok"
    /\ o \in Subs(merchantClients, payments[calls[c].pid].merchantId)
    /\ o \in Subs(paymentClients, calls[c].pid)

\* C30: the data of every published event is the payment as it is stored when
\* the event is published; for payment_failed it is that payment together with
\* the reason.
C30_DataIsSnapshot ==
  [][lastPublish' # lastPublish
       => lastPublish'.data =
            IF lastPublish'.type = PAYMENT_FAILED
              THEN [payment |-> payments'[lastPublish'.paymentId],
                    reason |-> calls[lastPublish'.by].reason]
              ELSE payments'[lastPublish'.paymentId]]_vars

-----------------------------------------------------------------------------
(* Order of the events of one payment (SpecOrder).                         *)

\* C18: an observer that has just received payment_completed for a payment
\* does not receive, as the next event, a payment_updated with status
\* processing for the same payment.
C18_NoUpdateAfterCompleted ==
  [][\A o \in Observers :
       (/\ lastPublish.type = PAYMENT_COMPLETED
        /\ lastPublish.copies[o] > 0
        /\ lastPublish' # lastPublish
        /\ lastPublish'.paymentId = lastPublish.paymentId
        /\ lastPublish'.copies[o] > 0)
         => ~(lastPublish'.type = PAYMENT_UPDATED /\ lastPublish'.status = PROCESSING)]_vars

-----------------------------------------------------------------------------
(* Progress of executePayment (SpecLive).                                  *)

\* C19: an executePayment that waits for the quote provider eventually stops
\* waiting (the call returns, with the payment rolled back to pending if the
\* answer is an error), also when the provider never answers.
C19_QuoteWaitEnds ==
  \A c \in SerialCallers :
    (calls[c].op = "execute" /\ AwaitsProvider(c)) ~> (calls[c].pc # "execute_build")

-----------------------------------------------------------------------------
(* Failing saves (SpecStore: one request at a time).                       *)

\* C20: when a save of confirmPayment or executePayment throws, the stored
\* payment is the row the method read when it started.
C20_NoPartialCommit ==
  [][\A c \in Callers :
       (calls[c].op \in {"confirm", "execute"} /\ calls[c].pc # "done"
          /\ calls'[c].result = "PersistenceFailed")
         => payments'[calls[c].pid] = calls[c].seen]_vars

-----------------------------------------------------------------------------
(* Faulty observers (SpecFaulty).                                          *)

\* The step in which call c hands its event to the gateway, whatever follows.
HandsOver(c) ==
  /\ calls[c].pc \in {"create_save", "submit_save", "execute_build",
                      "confirm_save_completed", "complete_save", "fail_save"}
  /\ calls'[c].pc = "done"

\* The keys the event of call c is emitted under: the merchant's, and for
\* executePayment and confirmPayment the payment's too.
Addressees(c) ==
  Subs(merchantClients, lastPublish'.merchantId)
    \cup (IF calls[c].op \in {"execute", "confirm"}
            THEN Subs(paymentClients, lastPublish'.paymentId) ELSE {})

\* C11: when the emit to one observer throws, every other connected observer
\* subscribed under a key the event is emitted to still receives the event.
C11_FaultyObserverIsolated ==
  [][\A c \in Callers :
       HandsOver(c)
         => \A o \in (Addressees(c) \cap clients) \ faulty :
              lastPublish'.copies[o] >= 1]_vars

\* C12: a Create, RecordSubmission, Execute, Confirm or Fail whose save took
\* effect returns success, also when the emit of its event throws.
C12_EmitFailureNotReturned ==
  [][\A c \in Callers :
       (HandsOver(c) /\ calls[c].op \in {"create", "submit", "execute", "confirm", "fail"})
         => calls'[c].result = "ok"]_vars

-----------------------------------------------------------------------------
(* The quote provider's failures (SpecQuote).                              *)

\* What the caller of a finished call has in hand: the class of the exception
\* and its text.
CallerSees(c) ==
  [thrown |-> calls[c].thrown,
   message |-> QuoteFailureMessage(calls[c].op, calls[c].cause)]

\* C31: a failure of getQuote is reported by its cause. Of two finished calls of
\* the same operation, one whose quote request found no route and one whose
\* request failed on the network, the errors differ: the one getQuote throws,
\* and the one the caller of prepare / execute receives.
C31_QuoteFailureByCause ==
  \A c, d \in Callers :
    ( /\ calls[c].pc = "done" /\ calls[d].pc = "done"
      /\ calls[c].op = calls[d].op
      /\ calls[c].cause = "no-route"
      /\ calls[d].cause = "network" )
    => /\ GetQuoteError(calls[c].cause) # GetQuoteError(calls[d].cause)
       /\ CallerSees(c) # CallerSees(d)

-----------------------------------------------------------------------------
(* Fan-out against registry changes (SpecBroadcast).                       *)

\* The members of a key whose socket the gateway knows.
Members(map, key) == Subs(map, key) \cap clients

\* The methods that emit to the payment's subscribers after the merchant's.
EmitsToPaymentKey(c) == calls[c].op \in {"execute", "confirm"}

\* C32: a publish and a change of the registry never happen in one step, and
\* a publish hands the event, for each key it emits to, to exactly the
\* observers that are members of that key in the state the publish starts in:
\* one copy per member of the merchant key and, for the methods that also emit
\* to the payment key, one per member of the payment key.
C32_FanOutSeesOneMembership ==
  [][ /\ \A c \in Callers :
           Publishes(c)
             => /\ UNCHANGED gatewayVars
                /\ \A o \in Observers :
                     lastPublish'.copies[o] =
                       (IF o \in Members(merchantClients, lastPublish'.merchantId)
                          THEN 1 ELSE 0)
                       + (IF /\ EmitsToPaymentKey(c)
                             /\ o \in Members(paymentClients, lastPublish'.paymentId)
                            THEN 1 ELSE 0)
      /\ (gatewayVars' # gatewayVars) => (lastPublish' = lastPublish) ]_vars

\* C32 witness: the last event went to o1, a member of the merchant's key, and
\* not to o2, which joined the same key after the fan-out.
C32_Witness ==
  /\ lastPublish.type # "none"
  /\ lastPublish.copies["o1"] >= 1
  /\ lastPublish.copies["o2"] = 0
  /\ "o2" \in Members(merchantClients, lastPublish.merchantId)
  /\ "o1" \in Members(merchantClients, lastPublish.merchantId)

-----------------------------------------------------------------------------
(* The swap route of Execute (SpecSwap).                                   *)

\* The settlement amount in units of 10^-6, a natural number.
SettlementUnits(amount) == TenTo(Big(amount), 4)

\* C33: an Execute that returns on the swap route has asked, in this call, for
\* a quote from the token it was called with to the settlement token, for
\* exactly the payment's amount in units of 10^-6, and its payload carries that
\* quote and the settlement-token account derived from the payment's own
\* destinationWallet.
C33_SwapQuoteForSettlementAmount ==
  [][\A c \in Callers :
       (calls[c].pc = "execute_build" /\ calls'[c].pc = "done"
          /\ calls[c].token # USDC_MINT)
         => /\ calls'[c].payload.route = "swap"
            /\ calls'[c].payload.quote.inputMint = calls[c].token
            /\ calls'[c].payload.quote.outputMint = USDC_MINT
            /\ calls'[c].payload.quote.amount
                 = SettlementUnits(payments[calls[c].pid].amount)
            /\ calls'[c].payload.merchantAddress
                 = payments[calls[c].pid].destinationWallet
            /\ calls'[c].payload.destinationTokenAccount
                 = AssociatedTokenAddress(USDC_MINT,
                                          payments[calls[c].pid].destinationWallet)]_vars

-----------------------------------------------------------------------------
(* RecordSubmission (Spec).                                                *)

\* C34: the step in which updatePaymentStatusAfterSubmission saves and returns
\* changes, of the payment's row, the transaction signature only, which
\* becomes the one the call was given; no other row changes; and the event
\* published is a transaction_submitted of that payment.
C34_SubmissionFrame ==
  [][\A c \in Callers :
       (calls[c].pc = "submit_save" /\ calls'[c].pc = "done")
         => /\ payments' = [payments EXCEPT
                              ![calls[c].pid].transactionSignature = calls[c].sig]
            /\ lastPublish'.type = TRANSACTION_SUBMITTED
            /\ lastPublish'.paymentId = calls[c].pid
            /\ lastPublish'.by = c]_vars

-----------------------------------------------------------------------------
(* The event of Execute (SpecOrder).                                       *)

\* A step of an executePayment call of c, and the step in which it returns its
\* transaction data.
ExecuteStep(c) == calls'[c] # calls[c] /\ calls'[c].op = "execute"

ExecuteReturns(c) ==
  /\ calls[c].op = "execute"
  /\ calls[c].pc = "execute_build"
  /\ calls'[c].pc = "done"
  /\ calls'[c].result = "ok"

\* C35: no step of an Execute other than the one in which it returns its
\* transaction data publishes anything, so an Execute that fails publishes
\* nothing; the returning step publishes payment_updated with status
\* processing; and payment_updated is published by no other step.
C35_UpdatedOnlyByReturningExecute ==
  [][ /\ \A c \in Callers :
           /\ (ExecuteStep(c) /\ ~ExecuteReturns(c)) => lastPublish' = lastPublish
           /\ ExecuteReturns(c)
                => /\ calls'[c].payload # NoPayload
                   /\ lastPublish'.type = PAYMENT_UPDATED
                   /\ lastPublish'.by = c
                   /\ lastPublish'.status = PROCESSING
                   /\ lastPublish'.data.status = PROCESSING
      /\ (lastPublish' # lastPublish /\ lastPublish'.type = PAYMENT_UPDATED)
           => \E c \in Callers : ExecuteReturns(c) ]_vars

\* C35 witness: an Execute ended after its rollback while o1 is subscribed to
\* the merchant, and the last event o1 was handed is still payment_created.
C35_Witness ==
  \E c \in Callers :
    /\ calls[c].op = "execute"
    /\ calls[c].pc = "done"
    /\ calls[c].result = "PrepareTxFailed"
    /\ lastPublish.type = PAYMENT_CREATED
    /\ lastPublish.copies["o1"] = 1
    /\ "o1" \in Members(merchantClients, lastPublish.merchantId)

-----------------------------------------------------------------------------
(* Members of the registry and connected sockets (SpecLate).               *)

\* C36: every socket id held in a subscription set of a merchant key or of a
\* payment key is the id of a connected client, also after a subscription
\* message was handled after its sender's disconnect.
C36_MembersAreConnected ==
  /\ \A k \in DOMAIN merchantClients : Subs(merchantClients, k) \subseteq clients
  /\ \A k \in DOMAIN paymentClients : Subs(paymentClients, k) \subseteq clients

-----------------------------------------------------------------------------
(* The SDK client against the service (SpecClient).                        *)

\* The step in which the client's method op, called by u, returns a value.
SdkReturns(u, op) ==
  /\ sdk.calls[u].pc # "done"
  /\ sdk'.calls[u].pc = "done"
  /\ sdk'.calls[u].op = op
  /\ sdk'.calls[u].outcome = "returned"

\* C37: when the client's confirmPayment returns a payment whose status is
\* completed, the stored status of that payment is completed, also when the
\* confirm request timed out.
C37_ClientCompletedIsStored ==
  [][\A u \in SerialCallers :
       (SdkReturns(u, "confirm") /\ sdk'.calls[u].status = COMPLETED)
         => /\ Exists(sdk'.calls[u].pid)
            /\ payments[sdk'.calls[u].pid].status = COMPLETED]_vars

\* C38: the transaction data the client's executePayment returns says direct
\* transfer only when the token asked for is the settlement token, and names
\* the settlement-token account of the payment's destination wallet, also
\* when the execute request timed out.
C38_ClientTransactionData ==
  [][\A u \in SerialCallers :
       SdkReturns(u, "execute")
         => /\ sdk'.calls[u].isDirectTransfer => sdk'.calls[u].token = USDC_MINT
            /\ Exists(sdk'.calls[u].pid)
            /\ sdk'.calls[u].destinationTokenAccount
                 = AssociatedTokenAddress(
                     USDC_MINT, payments[sdk'.calls[u].pid].destinationWallet)]_vars

-----------------------------------------------------------------------------
(* Concurrent validateApiKey calls (SpecValidate).                         *)

====
